---------------------------- MODULE Spec2Model ----------------------------
(***************************************************************************)
(* Order lifecycle and referral-discount state machine of the grillz shop  *)
(* backend (src/11): registration, order creation with referral discount,  *)
(* Stripe webhook reconciliation and the admin status override.            *)
(*                                                                         *)
(* The persistent store is modelled by its committed rows.  Row ids are    *)
(* the positions in the sequences users, codes, uses and orders (ids start *)
(* at 1, None is 0).  Money is held in cents so that the 0.9 and 0.8       *)
(* factors of the source stay exact.  A handler is one operator from the   *)
(* committed rows and the request to the committed rows and the response   *)
(* status, and one action that applies it; the points at which its commits *)
(* or its gateway call can raise are inputs of the request.                *)
(*                                                                         *)
(* Requests that run concurrently are modelled in two steps: the request   *)
(* reads (the queries it awaits before its first write), waits in inflight *)
(* with what it read, and later writes.  The one-step actions are the      *)
(* requests that run alone; they leave inflight idle.                      *)
(***************************************************************************)
EXTENDS Integers, Sequences, FiniteSets, TLC

VARIABLES users, codes, uses, orders, inflight

vars == <<users, codes, uses, orders, inflight>>

---------------------------------------------------------------------------
(* Bounds *)

MaxUsers == 2
MaxOrders == 2
MaxTeeth == 4
MaxInflight == 2

(* None of the source: a nullable column that is NULL, or a lookup that  *)
(* found nothing.                                                        *)
None == 0

Emails == 1..MaxUsers
CodeTokens == 1..MaxUsers
Sessions == 1..(MaxOrders + 1)

---------------------------------------------------------------------------
(* Pricing table, src/11/routes/orders.py GRILLZ_PRICES (dollars) *)

GRILLZ_PRICES == [gold |-> 299, silver |-> 149, diamond |-> 999]

\* The create-order requests the model sends: an accepted and two rejected
\* grillz requests, a rejected and an accepted watch request.
OrderRequests ==
    {[product_type |-> "grillz", material |-> "gold", teeth |-> 2,
      detail_price |-> 0],
     [product_type |-> "grillz", material |-> "gold", teeth |-> 0,
      detail_price |-> 0],
     [product_type |-> "grillz", material |-> "platinum", teeth |-> 1,
      detail_price |-> 0],
     [product_type |-> "watch", material |-> "steel", teeth |-> 0,
      detail_price |-> 50],
     [product_type |-> "watch", material |-> "steel", teeth |-> 0,
      detail_price |-> 0]}

\* The create-order requests of the pricing study: every material of the
\* table and one outside it with 0..MaxTeeth selected teeth, and the two
\* caller-priced product types with a negative, a zero or missing (the
\* default of product_details.get("price", 0)) and a positive price.
Materials == DOMAIN GRILLZ_PRICES \cup {"platinum"}
DetailPrices == {-5, 0, 50}

PricingRequests ==
    {[product_type |-> "grillz", material |-> m, teeth |-> n,
      detail_price |-> 0] : m \in Materials, n \in 0..MaxTeeth}
    \cup
    {[product_type |-> t, material |-> "steel", teeth |-> 0,
      detail_price |-> p] : t \in {"watch", "bracelet"}, p \in DetailPrices}

\* The requests of the checkout study: gold grillz and the caller-priced
\* product types
CheckoutRequests == {q \in PricingRequests : q.material \in {"gold", "steel"}}

Statuses == {"pending", "paid", "shipped", "failed", "cancelled"}
StatusInputs == Statuses \cup {"refunded"}

---------------------------------------------------------------------------
(* Query helpers *)

\* Result.scalar_one_or_none(): the row, None, or MultipleResultsFound
ScalarOneOrNone(S) ==
    [raises |-> Cardinality(S) > 1,
     row    |-> IF Cardinality(S) = 1 THEN CHOOSE r \in S : TRUE ELSE None]

UserByEmail(us, email) == {i \in DOMAIN us : us[i].email = email}
CodeByToken(cs, token) == {i \in DOMAIN cs : cs[i].code = token}
CodeByUser(cs, uid) == {i \in DOMAIN cs : cs[i].user_id = uid}
OrderBySession(os, sid) == {i \in DOMAIN os : os[i].stripe_payment_intent = sid}

---------------------------------------------------------------------------
(* Rows *)

\* models.User (the columns the ledgers read)
NewUser(email, referral_code) ==
    [email |-> email, referred_by |-> referral_code, is_admin |-> FALSE]

\* models.ReferralCode
NewReferralCode(token, uid) == [code |-> token, user_id |-> uid]

\* models.ReferralUse with its column defaults
NewReferralUse(code_id, uid) ==
    [referral_code_id |-> code_id, referred_user_id |-> uid,
     first_order_id |-> None, referrer_discount_used |-> FALSE,
     referee_discount_used |-> FALSE, is_active |-> FALSE]

\* The requests in flight: one slot per concurrent request, idle or
\* holding the request and what it has read
Slots == 1..MaxInflight
Idle == [op |-> "idle"]
NoRequests == [s \in Slots |-> Idle]

\* The tables as create_tables leaves them, plus the first account: it
\* registered (and so owns a referral code) and the operator gave it the
\* admin flag in the database, which no route can do for the first admin.
Init ==
    /\ users = <<[email |-> 1, referred_by |-> None, is_admin |-> TRUE]>>
    /\ codes = <<NewReferralCode(1, 1)>>
    /\ uses = <<>>
    /\ orders = <<>>
    /\ inflight = NoRequests

---------------------------------------------------------------------------
(* POST /auth/register *)

\* The inputs of register are taken up to renaming: the next unused email
\* (or generated token), or one that is already taken.
FreshOrTaken(S, us) == {x \in S : x <= Len(us) + 1}

RegisterFailPoints == {"none", "user_commit", "final_commit"}

\* register that ignores a referral code it does not find
register_ignores_unknown_code(us, cs, rs, email, referral_code, token, failAt) ==
    LET uid == Len(us) + 1
        found == ScalarOneOrNone(CodeByToken(cs, referral_code)).row
        us1 == Append(us, NewUser(email, referral_code))
        cs1 == Append(cs, NewReferralCode(token, uid))
        rs1 == IF found # None
                  THEN Append(rs, NewReferralUse(found, uid))
                  ELSE rs
    IN  IF UserByEmail(us, email) # {}
           THEN [users |-> us, codes |-> cs, uses |-> rs, status |-> 400]
        ELSE IF failAt = "user_commit"
           THEN [users |-> us, codes |-> cs, uses |-> rs, status |-> 500]
        ELSE IF failAt = "final_commit" \/ CodeByToken(cs, token) # {}
           THEN [users |-> us1, codes |-> cs, uses |-> rs, status |-> 500]
        ELSE [users |-> us1, codes |-> cs1, uses |-> rs1, status |-> 200]

register(us, cs, rs, email, referral_code, token, failAt) ==
    LET uid == Len(us) + 1
        found == ScalarOneOrNone(CodeByToken(cs, referral_code)).row
        us1 == Append(us, NewUser(email, referral_code))
        cs1 == Append(cs, NewReferralCode(token, uid))
        rs1 == IF referral_code # None
                  THEN Append(rs, NewReferralUse(found, uid))
                  ELSE rs
    IN  IF UserByEmail(us, email) # {}
           THEN [users |-> us, codes |-> cs, uses |-> rs, status |-> 400]
        ELSE IF referral_code # None /\ found = None
           THEN [users |-> us, codes |-> cs, uses |-> rs, status |-> 400]
        ELSE IF failAt = "user_commit"
           THEN [users |-> us, codes |-> cs, uses |-> rs, status |-> 500]
        \* second commit: the unique index on referral_codes.code rejects a
        \* token that is already taken; the user row is already committed
        ELSE IF failAt = "final_commit" \/ CodeByToken(cs, token) # {}
           THEN [users |-> us1, codes |-> cs, uses |-> rs, status |-> 500]
        ELSE [users |-> us1, codes |-> cs1, uses |-> rs1, status |-> 200]

Register ==
    \E email \in FreshOrTaken(Emails, users),
       referral_code \in CodeTokens \cup {None},
       token \in FreshOrTaken(CodeTokens, users),
       failAt \in RegisterFailPoints :
        LET r == register(users, codes, uses, email, referral_code,
                                token, failAt)
        IN  /\ Len(users) < MaxUsers
            /\ users' = r.users
            /\ codes' = r.codes
            /\ uses' = r.uses
            /\ UNCHANGED <<orders, inflight>>

---------------------------------------------------------------------------
(* Python float arithmetic of the price computations.  A float is an IEEE  *)
(* 754 double: here a record [m, e] standing for m * 2^e, with m a natural *)
(* number of at most 53 bits written as its sequence of bits, lowest bit   *)
(* first.                                                                  *)

RECURSIVE NatToBits(_)
NatToBits(n) == IF n = 0 THEN <<>> ELSE <<n % 2>> \o NatToBits(n \div 2)

RECURSIVE BitsToNat(_)
BitsToNat(b) == IF b = <<>> THEN 0 ELSE Head(b) + 2 * BitsToNat(Tail(b))

\* b without its leading zero bits
RECURSIVE Trim(_)
Trim(b) ==
    IF b = <<>> \/ b[Len(b)] = 1 THEN b ELSE Trim(SubSeq(b, 1, Len(b) - 1))

\* the bits of a number given by its hexadecimal digits, highest first
RECURSIVE HexBits(_)
HexBits(h) ==
    IF h = <<>> THEN <<>>
    ELSE LET d == Head(h)
         IN  HexBits(Tail(h))
               \o <<d % 2, (d \div 2) % 2, (d \div 4) % 2, (d \div 8) % 2>>

\* b + 1
RECURSIVE Inc(_)
Inc(b) ==
    IF b = <<>> THEN <<1>>
    ELSE IF Head(b) = 0 THEN <<1>> \o Tail(b)
    ELSE <<0>> \o Inc(Tail(b))

\* b * k + carry, exactly, for a small natural number k
RECURSIVE MulSmall(_, _, _)
MulSmall(b, k, carry) ==
    IF b = <<>> THEN NatToBits(carry)
    ELSE LET v == Head(b) * k + carry
         IN  <<v % 2>> \o MulSmall(Tail(b), k, v \div 2)

MantissaBits == 53

\* the double nearest to b * 2^e, ties to the even mantissa
RoundToDouble(b, e) ==
    LET n == Len(b)
        s == n - MantissaBits
        kept == SubSeq(b, s + 1, n)
        sticky == \E i \in 1..(s - 1) : b[i] = 1
        up == b[s] = 1 /\ (sticky \/ kept[1] = 1)
        m == IF up THEN Inc(kept) ELSE kept
    IN  IF n <= MantissaBits THEN [m |-> b, e |-> e]
        ELSE IF Len(m) > MantissaBits THEN [m |-> Tail(m), e |-> e + s + 1]
        ELSE [m |-> m, e |-> e + s]

\* x * k for a float x and an int k: the exact product, rounded once
FloatTimesInt(x, k) == RoundToDouble(Trim(MulSmall(x.m, k, 0)), x.e)

\* int(x) for a float x >= 0
FloatToInt(x) ==
    IF x.e >= 0 THEN BitsToNat(x.m) * 2 ^ x.e
    ELSE BitsToNat(SubSeq(x.m, 1 - x.e, Len(x.m)))

\* the literals 0.9 (0x1.ccccccccccccdp-1) and 0.8 (0x1.999999999999ap-1)
Float09 ==
    [m |-> Trim(HexBits(<<1, 12, 12, 12, 12, 12, 12, 12, 12, 12, 12, 12, 12,
                          13>>)),
     e |-> 0 - MantissaBits]

Float08 ==
    [m |-> Trim(HexBits(<<1, 9, 9, 9, 9, 9, 9, 9, 9, 9, 9, 9, 9, 10>>)),
     e |-> 0 - MantissaBits]

---------------------------------------------------------------------------
(* GET /ref/{referral_code} *)

\* The path segment of a referral link: the token it spells and its form,
\* well-formed, with a character outside [a-zA-Z0-9-], or over 50 long.
\* A stored code is always well-formed.
CodeForms == {"wellformed", "bad_chars", "too_long"}
LinkCodes == [token : CodeTokens, form : CodeForms]

\* the Path(..., max_length=50, regex=...) declaration of line 185
PathAccepts(referral_code) == referral_code.form = "wellformed"

\* validate_referral_code: the status it raises, or None when it returns
validate_referral_code(referral_code) ==
    IF referral_code.form = "wellformed" THEN None ELSE 400

\* referral_redirect: the response status and the code of the ref query
\* parameter of the Location header (None: plain /auth/register).
\* lookupFails is an SQLAlchemyError of the query of line 195.
referral_redirect(cs, referral_code, lookupFails) ==
    LET found == ScalarOneOrNone(CodeByToken(cs, referral_code.token))
    IN  IF ~PathAccepts(referral_code) THEN [status |-> 422, ref |-> None]
        ELSE IF validate_referral_code(referral_code) # None
           THEN [status |-> validate_referral_code(referral_code),
                 ref |-> None]
        ELSE IF lookupFails \/ found.raises \/ found.row = None
           THEN [status |-> 303, ref |-> None]
        ELSE [status |-> 303, ref |-> referral_code.token]

---------------------------------------------------------------------------
(* POST /api/create-order *)

\* a price per order: the unit price whatever the number of teeth
BasePrice_per_order(product_type, material, teeth, detail_price) ==
    IF product_type = "grillz"
       THEN IF material \notin DOMAIN GRILLZ_PRICES THEN None
            ELSE IF teeth = 0 THEN None
            ELSE GRILLZ_PRICES[material]
    ELSE IF detail_price <= 0 THEN None
    ELSE detail_price

\* a caller-supplied price that only has to be non-zero
BasePrice_nonzero(product_type, material, teeth, detail_price) ==
    IF product_type = "grillz"
       THEN IF material \notin DOMAIN GRILLZ_PRICES THEN None
            ELSE IF teeth = 0 THEN None
            ELSE GRILLZ_PRICES[material] * teeth
    ELSE IF detail_price = 0 THEN None
    ELSE detail_price

\* create_order lines 149-172: the base price, or None when the request is
\* rejected with 400
BasePrice(product_type, material, teeth, detail_price) ==
    IF product_type = "grillz"
       THEN IF material \notin DOMAIN GRILLZ_PRICES THEN None
            ELSE IF teeth = 0 THEN None
            ELSE GRILLZ_PRICES[material] * teeth
    ELSE IF detail_price <= 0 THEN None
    ELSE detail_price

\* referee query, lines 282-287
RefereeRows(rs, uid) ==
    {i \in DOMAIN rs : rs[i].referred_user_id = uid
                       /\ ~rs[i].referee_discount_used}

\* referrer query, lines 301-306
ReferrerRows(rs, code_id) ==
    {i \in DOMAIN rs : rs[i].referral_code_id = code_id
                       /\ ~rs[i].referrer_discount_used}

\* apply_referral_discount with the two checks in the other order
apply_referral_discount_referrer_first(rs, cs, uid, total_price, commitFails) ==
    LET referee == ScalarOneOrNone(RefereeRows(rs, uid))
        own == ScalarOneOrNone(CodeByUser(cs, uid))
        referrer == IF own.row = None
                       THEN [raises |-> FALSE, row |-> None]
                       ELSE ScalarOneOrNone(ReferrerRows(rs, own.row))
        unchanged == [total_price |-> total_price, discount_type |-> "none",
                      uses |-> rs]
    IN  IF own.raises \/ referrer.raises THEN unchanged
        ELSE IF referrer.row # None
           THEN [total_price |-> (total_price * 8) \div 10,
                 discount_type |-> "referrer",
                 uses |-> IF commitFails THEN rs
                          ELSE [rs EXCEPT ![referrer.row].referrer_discount_used
                                              = TRUE]]
        ELSE IF referee.raises THEN unchanged
        ELSE IF referee.row # None
           THEN [total_price |-> (total_price * 9) \div 10,
                 discount_type |-> "referee",
                 uses |-> IF commitFails THEN rs
                          ELSE [rs EXCEPT ![referee.row].referee_discount_used
                                              = TRUE]]
        ELSE unchanged

\* apply_referral_discount that takes the 10% off twice
apply_referral_discount_twice(rs, cs, uid, total_price, commitFails) ==
    LET referee == ScalarOneOrNone(RefereeRows(rs, uid))
        own == ScalarOneOrNone(CodeByUser(cs, uid))
        referrer == IF own.row = None
                       THEN [raises |-> FALSE, row |-> None]
                       ELSE ScalarOneOrNone(ReferrerRows(rs, own.row))
        unchanged == [total_price |-> total_price, discount_type |-> "none",
                      uses |-> rs]
    IN  IF referee.raises THEN unchanged
        ELSE IF referee.row # None
           THEN [total_price |-> (total_price * 9 * 9) \div 100,
                 discount_type |-> "referee",
                 uses |-> IF commitFails THEN rs
                          ELSE [rs EXCEPT ![referee.row].referee_discount_used
                                              = TRUE]]
        ELSE IF own.raises \/ referrer.raises THEN unchanged
        ELSE IF referrer.row # None
           THEN [total_price |-> (total_price * 8) \div 10,
                 discount_type |-> "referrer",
                 uses |-> IF commitFails THEN rs
                          ELSE [rs EXCEPT ![referrer.row].referrer_discount_used
                                              = TRUE]]
        ELSE unchanged

\* apply_referral_discount: total_price is in cents.  The local total_price
\* and discount_type are assigned before the commit of line 313, and the
\* except branch only rolls the session back.
apply_referral_discount(rs, cs, uid, total_price, commitFails) ==
    LET referee == ScalarOneOrNone(RefereeRows(rs, uid))
        own == ScalarOneOrNone(CodeByUser(cs, uid))
        referrer == IF own.row = None
                       THEN [raises |-> FALSE, row |-> None]
                       ELSE ScalarOneOrNone(ReferrerRows(rs, own.row))
        unchanged == [total_price |-> total_price, discount_type |-> "none",
                      uses |-> rs]
    IN  IF referee.raises THEN unchanged
        ELSE IF referee.row # None
           THEN [total_price |-> (total_price * 9) \div 10,
                 discount_type |-> "referee",
                 uses |-> IF commitFails THEN rs
                          ELSE [rs EXCEPT ![referee.row].referee_discount_used
                                              = TRUE]]
        ELSE IF own.raises \/ referrer.raises THEN unchanged
        ELSE IF referrer.row # None
           THEN [total_price |-> (total_price * 8) \div 10,
                 discount_type |-> "referrer",
                 uses |-> IF commitFails THEN rs
                          ELSE [rs EXCEPT ![referrer.row].referrer_discount_used
                                              = TRUE]]
        ELSE unchanged

\* The places where create_order can raise: the commit of line 313, the
\* commit of line 204, the gateway call of line 208, the commit of line 235
CreateFaults == {"none", "discount_commit", "order_insert", "gateway",
                 "session_commit"}

\* models.Order, as create_order lines 185-201 fills it
NewOrder(uid, product_type, material, teeth, detail_price, discount_type, total_price) ==
    [user_id |-> uid, product_type |-> product_type, material |-> material,
     teeth |-> teeth, detail_price |-> detail_price,
     discount_applied |-> discount_type, total_price |-> total_price,
     stripe_payment_intent |-> None, payment_status |-> "pending"]

\* create_order that asks for a discount whether or not the caller opted in
create_order_always_discounts(os, rs, cs, uid, product_type, material, teeth, detail_price, use_referral_discount, fault) ==
    LET base == BasePrice(product_type, material, teeth, detail_price)
        d == apply_referral_discount(rs, cs, uid, base * 100,
                                     fault = "discount_commit")
        oid == Len(os) + 1
        order == NewOrder(uid, product_type, material, teeth, detail_price,
                          d.discount_type, d.total_price)
    IN  IF base = None
           THEN [orders |-> os, uses |-> rs, status |-> 400]
        ELSE IF fault = "order_insert"
           THEN [orders |-> os, uses |-> d.uses, status |-> 500]
        ELSE IF fault \in {"gateway", "session_commit"}
           THEN [orders |-> Append(os, order), uses |-> d.uses,
                 status |-> 500]
        \* the checkout session id is fresh; it is named after the order
        ELSE [orders |-> Append(os, [order EXCEPT
                                        !.stripe_payment_intent = oid]),
              uses |-> d.uses, status |-> 200]

create_order(os, rs, cs, uid, product_type, material, teeth, detail_price, use_referral_discount, fault) ==
    LET base == BasePrice(product_type, material, teeth, detail_price)
        d == IF use_referral_discount
                THEN apply_referral_discount(rs, cs, uid, base * 100,
                                             fault = "discount_commit")
                ELSE [total_price |-> base * 100, discount_type |-> "none",
                      uses |-> rs]
        oid == Len(os) + 1
        order == NewOrder(uid, product_type, material, teeth, detail_price,
                          d.discount_type, d.total_price)
    IN  IF base = None
           THEN [orders |-> os, uses |-> rs, status |-> 400]
        ELSE IF fault = "order_insert"
           THEN [orders |-> os, uses |-> d.uses, status |-> 500]
        ELSE IF fault \in {"gateway", "session_commit"}
           THEN [orders |-> Append(os, order), uses |-> d.uses,
                 status |-> 500]
        \* the checkout session id is fresh; it is named after the order
        ELSE [orders |-> Append(os, [order EXCEPT
                                        !.stripe_payment_intent = oid]),
              uses |-> d.uses, status |-> 200]

CreateOrder ==
    \E uid \in DOMAIN users, q \in OrderRequests, optin \in BOOLEAN,
       fault \in CreateFaults :
        LET r == create_order(orders, uses, codes, uid, q.product_type,
                              q.material, q.teeth, q.detail_price, optin,
                              fault)
        IN  /\ Len(orders) < MaxOrders
            /\ orders' = r.orders
            /\ uses' = r.uses
            /\ UNCHANGED <<users, codes, inflight>>

\* the discount kinds create_order records, and the percentage of each
DiscountKinds == {"none", "referee", "referrer"}
Rate == [none |-> 0, referee |-> 10, referrer |-> 20]

\* the base prices (dollars) of the requests that are accepted
Bases ==
    {BasePrice(q.product_type, q.material, q.teeth, q.detail_price) :
        q \in PricingRequests \cup OrderRequests} \ {None}

\* unit_amount of the checkout session, line 217: int(total_price * 100),
\* where total_price is the int base price when no discount applied and
\* the float total_price * 0.9 or total_price * 0.8 of lines 290 and 308
\* otherwise
unit_amount ==
    [base \in Bases, kind \in DiscountKinds |->
        IF kind = "none" THEN base * 100
        ELSE LET factor == IF kind = "referee" THEN Float09 ELSE Float08
             IN  FloatToInt(FloatTimesInt(FloatTimesInt(factor, base), 100))]

CreateOrderPriced ==
    \E uid \in DOMAIN users, q \in PricingRequests, optin \in BOOLEAN,
       fault \in CreateFaults :
        LET r == create_order(orders, uses, codes, uid, q.product_type,
                              q.material, q.teeth, q.detail_price, optin,
                              fault)
        IN  /\ Len(orders) < MaxOrders
            /\ orders' = r.orders
            /\ uses' = r.uses
            /\ UNCHANGED <<users, codes, inflight>>

CreateOrderCheckout ==
    \E uid \in DOMAIN users, q \in CheckoutRequests, optin \in BOOLEAN,
       fault \in CreateFaults :
        LET r == create_order(orders, uses, codes, uid, q.product_type,
                              q.material, q.teeth, q.detail_price, optin,
                              fault)
        IN  /\ Len(orders) < MaxOrders
            /\ orders' = r.orders
            /\ uses' = r.uses
            /\ UNCHANGED <<users, codes, inflight>>

---------------------------------------------------------------------------
(* POST /api/stripe/webhook *)

\* activate_referral_bonus without the already-active check of line 462
activate_referral_bonus_reactivates(us, cs, rs, uid, order_id, fails) ==
    LET referred_by == us[uid].referred_by
        code == ScalarOneOrNone(CodeByToken(cs, referred_by))
        use == ScalarOneOrNone({i \in DOMAIN rs :
                                   /\ rs[i].referral_code_id = code.row
                                   /\ rs[i].referred_user_id = uid})
        kept == [uses |-> rs, committed |-> FALSE, rolledBack |-> FALSE]
    IN  IF referred_by = None THEN kept
        ELSE IF fails \/ code.raises
           THEN [kept EXCEPT !.rolledBack = TRUE]
        ELSE IF code.row = None THEN kept
        ELSE IF use.raises THEN [kept EXCEPT !.rolledBack = TRUE]
        ELSE IF use.row = None THEN kept
        ELSE [uses |-> [rs EXCEPT ![use.row].is_active = TRUE,
                                  ![use.row].first_order_id = order_id],
              committed |-> TRUE, rolledBack |-> FALSE]

\* activate_referral_bonus whose except branch logs and does not roll back
activate_referral_bonus_no_rollback(us, cs, rs, uid, order_id, fails) ==
    LET referred_by == us[uid].referred_by
        code == ScalarOneOrNone(CodeByToken(cs, referred_by))
        use == ScalarOneOrNone({i \in DOMAIN rs :
                                   /\ rs[i].referral_code_id = code.row
                                   /\ rs[i].referred_user_id = uid})
        kept == [uses |-> rs, committed |-> FALSE, rolledBack |-> FALSE]
    IN  IF referred_by = None THEN kept
        ELSE IF fails \/ code.raises THEN kept
        ELSE IF code.row = None THEN kept
        ELSE IF use.raises THEN kept
        ELSE IF use.row = None THEN kept
        ELSE IF rs[use.row].is_active THEN kept
        ELSE [uses |-> [rs EXCEPT ![use.row].is_active = TRUE,
                                  ![use.row].first_order_id = order_id],
              committed |-> TRUE, rolledBack |-> FALSE]

\* activate_referral_bonus: fails is a database error inside the try block
\* (a query or the commit of line 470); the except branch rolls the whole
\* session back, the caller's pending order update included.
activate_referral_bonus(us, cs, rs, uid, order_id, fails) ==
    LET referred_by == us[uid].referred_by
        code == ScalarOneOrNone(CodeByToken(cs, referred_by))
        use == ScalarOneOrNone({i \in DOMAIN rs :
                                   /\ rs[i].referral_code_id = code.row
                                   /\ rs[i].referred_user_id = uid})
        kept == [uses |-> rs, committed |-> FALSE, rolledBack |-> FALSE]
    IN  IF referred_by = None THEN kept
        ELSE IF fails \/ code.raises
           THEN [kept EXCEPT !.rolledBack = TRUE]
        ELSE IF code.row = None THEN kept
        ELSE IF use.raises THEN [kept EXCEPT !.rolledBack = TRUE]
        ELSE IF use.row = None THEN kept
        ELSE IF rs[use.row].is_active THEN kept
        ELSE [uses |-> [rs EXCEPT ![use.row].is_active = TRUE,
                                  ![use.row].first_order_id = order_id],
              committed |-> TRUE, rolledBack |-> FALSE]

\* handle_successful_payment without the already-paid check of line 393
handle_successful_payment_no_paid_check(os, us, cs, rs, sid, fault) ==
    LET found == ScalarOneOrNone(OrderBySession(os, sid))
        oid == found.row
        a == activate_referral_bonus(us, cs, rs, os[oid].user_id, oid,
                                     fault = "activate")
        kept == [orders |-> os, uses |-> rs, paidWrite |-> FALSE,
                 activated |-> FALSE]
        paid == [os EXCEPT ![oid].payment_status = "paid"]
    IN  IF found.raises \/ oid = None THEN kept
        ELSE IF a.rolledBack THEN kept
        ELSE IF a.committed
           THEN [orders |-> paid, uses |-> a.uses, paidWrite |-> TRUE,
                 activated |-> TRUE]
        ELSE IF fault = "commit" THEN kept
        ELSE [orders |-> paid, uses |-> rs, paidWrite |-> TRUE,
              activated |-> FALSE]

\* handle_successful_payment; paidWrite tells whether line 398 ran and its
\* write reached the database, activated whether lines 467-470 did.
handle_successful_payment(os, us, cs, rs, sid, fault) ==
    LET found == ScalarOneOrNone(OrderBySession(os, sid))
        oid == found.row
        a == activate_referral_bonus(us, cs, rs, os[oid].user_id, oid,
                                     fault = "activate")
        kept == [orders |-> os, uses |-> rs, paidWrite |-> FALSE,
                 activated |-> FALSE]
        paid == [os EXCEPT ![oid].payment_status = "paid"]
    IN  IF found.raises \/ oid = None THEN kept
        ELSE IF os[oid].payment_status = "paid" THEN kept
        ELSE IF a.rolledBack THEN kept
        ELSE IF a.committed
           THEN [orders |-> paid, uses |-> a.uses, paidWrite |-> TRUE,
                 activated |-> TRUE]
        ELSE IF fault = "commit" THEN kept
        ELSE [orders |-> paid, uses |-> rs, paidWrite |-> TRUE,
              activated |-> FALSE]

\* handle_failed_payment
handle_failed_payment(os, sid, commitFails) ==
    LET found == ScalarOneOrNone(OrderBySession(os, sid))
    IN  IF found.raises \/ found.row = None \/ commitFails THEN os
        ELSE [os EXCEPT ![found.row].payment_status = "failed"]

EventTypes == {"checkout.session.completed", "checkout.session.expired",
               "payment_intent.created"}

\* What can go wrong in one webhook request: the payload or the signature
\* check of line 340, a database error inside activate_referral_bonus, a
\* failing commit of the handler itself (line 406 or 427)
WebhookFaults == {"none", "payload", "signature", "activate", "commit"}

\* construct_event raised ValueError or SignatureVerificationError
Unverified == {"payload", "signature"}

\* stripe_webhook that answers 404 when no order carries the session id
stripe_webhook_unknown_session_404(os, us, cs, rs, type, sid, fault) ==
    LET c == handle_successful_payment(os, us, cs, rs, sid, fault)
        handled == type \in {"checkout.session.completed",
                             "checkout.session.expired"}
    IN  IF fault \in Unverified
           THEN [orders |-> os, uses |-> rs, status |-> 400]
        ELSE IF handled /\ OrderBySession(os, sid) = {}
           THEN [orders |-> os, uses |-> rs, status |-> 404]
        ELSE IF type = "checkout.session.completed"
           THEN [orders |-> c.orders, uses |-> c.uses, status |-> 200]
        ELSE IF type = "checkout.session.expired"
           THEN [orders |-> handle_failed_payment(os, sid, fault = "commit"),
                 uses |-> rs, status |-> 200]
        ELSE [orders |-> os, uses |-> rs, status |-> 200]

\* stripe_webhook that lets the errors of its handlers reach the gateway
stripe_webhook_errors_propagate(os, us, cs, rs, type, sid, fault) ==
    LET c == handle_successful_payment(os, us, cs, rs, sid, fault)
        raised == /\ fault \in {"activate", "commit"}
                  /\ OrderBySession(os, sid) # {}
    IN  IF fault \in Unverified
           THEN [orders |-> os, uses |-> rs, status |-> 400]
        ELSE IF type = "checkout.session.completed"
           THEN [orders |-> c.orders, uses |-> c.uses,
                 status |-> IF raised THEN 500 ELSE 200]
        ELSE IF type = "checkout.session.expired"
           THEN [orders |-> handle_failed_payment(os, sid, fault = "commit"),
                 uses |-> rs, status |-> IF raised THEN 500 ELSE 200]
        ELSE [orders |-> os, uses |-> rs, status |-> 200]

\* stripe_webhook that handles the event without verifying it
stripe_webhook_no_verification(os, us, cs, rs, type, sid, fault) ==
    LET c == handle_successful_payment(os, us, cs, rs, sid, fault)
    IN  IF type = "checkout.session.completed"
           THEN [orders |-> c.orders, uses |-> c.uses, status |-> 200]
        ELSE IF type = "checkout.session.expired"
           THEN [orders |-> handle_failed_payment(os, sid, fault = "commit"),
                 uses |-> rs, status |-> 200]
        ELSE [orders |-> os, uses |-> rs, status |-> 200]

\* stripe_webhook, with the webhook secret configured
stripe_webhook(os, us, cs, rs, type, sid, fault) ==
    LET c == handle_successful_payment(os, us, cs, rs, sid, fault)
    IN  IF fault \in Unverified
           THEN [orders |-> os, uses |-> rs, status |-> 400]
        ELSE IF type = "checkout.session.completed"
           THEN [orders |-> c.orders, uses |-> c.uses, status |-> 200]
        ELSE IF type = "checkout.session.expired"
           THEN [orders |-> handle_failed_payment(os, sid, fault = "commit"),
                 uses |-> rs, status |-> 200]
        ELSE [orders |-> os, uses |-> rs, status |-> 200]

StripeWebhook ==
    \E type \in EventTypes, sid \in Sessions, fault \in WebhookFaults :
        LET r == stripe_webhook(orders, users, codes, uses, type, sid, fault)
        IN  /\ orders' = r.orders
            /\ uses' = r.uses
            /\ UNCHANGED <<users, codes, inflight>>

---------------------------------------------------------------------------
(* PUT /admin/api/orders/{order_id}/status *)

\* update_order_status that zeroes the price of an order it cancels
update_order_status_reprices(os, order_id, status, commitFails) ==
    IF status \notin Statuses THEN [orders |-> os, status |-> 400]
    ELSE IF order_id \notin DOMAIN os THEN [orders |-> os, status |-> 404]
    ELSE IF commitFails THEN [orders |-> os, status |-> 500]
    ELSE [orders |-> [os EXCEPT ![order_id].payment_status = status,
                                ![order_id].total_price =
                                    IF status = "cancelled" THEN 0 ELSE @],
          status |-> 200]

\* update_order_status, called by an authenticated admin
update_order_status(os, order_id, status, commitFails) ==
    IF status \notin Statuses THEN [orders |-> os, status |-> 400]
    ELSE IF order_id \notin DOMAIN os THEN [orders |-> os, status |-> 404]
    ELSE IF commitFails THEN [orders |-> os, status |-> 500]
    ELSE [orders |-> [os EXCEPT ![order_id].payment_status = status],
          status |-> 200]

AdminUpdateOrderStatus ==
    \E admin \in DOMAIN users, order_id \in 1..(MaxOrders + 1),
       status \in StatusInputs, commitFails \in BOOLEAN :
        LET r == update_order_status(orders, order_id, status, commitFails)
        IN  /\ users[admin].is_admin
            /\ orders' = r.orders
            /\ UNCHANGED <<users, codes, uses, inflight>>

\* get_admin_stats, lines 146-168: the order counts of the dashboard
CountByStatus(os, status) ==
    Cardinality({o \in DOMAIN os : os[o].payment_status = status})

get_admin_stats(os) ==
    [total_orders |-> Len(os),
     pending_orders |-> CountByStatus(os, "pending"),
     completed_orders |-> CountByStatus(os, "paid"),
     shipped_orders |-> CountByStatus(os, "shipped"),
     failed_orders |-> CountByStatus(os, "failed")]

---------------------------------------------------------------------------
(* GET /referrals/check-discount *)

\* referrer query of the preview, lines 118-123
ActiveReferrerRows(rs, code_id) ==
    {i \in DOMAIN rs : /\ rs[i].referral_code_id = code_id
                       /\ ~rs[i].referrer_discount_used
                       /\ rs[i].is_active}

\* check_available_discount: the discount in percent and its type; a
\* query that raises is not handled and the answer is a 500
check_available_discount(rs, cs, uid) ==
    LET referee == ScalarOneOrNone(RefereeRows(rs, uid))
        own == ScalarOneOrNone(CodeByUser(cs, uid))
        referrer == IF own.row = None
                       THEN [raises |-> FALSE, row |-> None]
                       ELSE ScalarOneOrNone(ActiveReferrerRows(rs, own.row))
        failed == [status |-> 500, discount |-> 0, type |-> "none"]
    IN  IF referee.raises THEN failed
        ELSE IF referee.row # None
           THEN [status |-> 200, discount |-> 10, type |-> "referee"]
        ELSE IF own.raises \/ referrer.raises THEN failed
        ELSE IF referrer.row # None
           THEN [status |-> 200, discount |-> 20, type |-> "referrer"]
        ELSE [status |-> 200, discount |-> 0, type |-> "none"]

---------------------------------------------------------------------------
(* POST /admin/api/users/{user_id}/toggle-admin *)

\* toggle_user_admin without the own-account check of line 314
toggle_user_admin_no_self_check(us, current_user, user_id, commitFails) ==
    IF user_id \notin DOMAIN us THEN [users |-> us, status |-> 404]
    ELSE IF commitFails THEN [users |-> us, status |-> 500]
    ELSE [users |-> [us EXCEPT ![user_id].is_admin = ~us[user_id].is_admin],
          status |-> 200]

\* toggle_user_admin, called by the authenticated admin current_user
toggle_user_admin(us, current_user, user_id, commitFails) ==
    IF user_id \notin DOMAIN us THEN [users |-> us, status |-> 404]
    ELSE IF user_id = current_user /\ us[user_id].is_admin
       THEN [users |-> us, status |-> 400]
    ELSE IF commitFails THEN [users |-> us, status |-> 500]
    ELSE [users |-> [us EXCEPT ![user_id].is_admin = ~us[user_id].is_admin],
          status |-> 200]

ToggleUserAdmin ==
    \E current_user \in DOMAIN users, user_id \in 1..(MaxUsers + 1),
       commitFails \in BOOLEAN :
        LET r == toggle_user_admin(users, current_user, user_id, commitFails)
        IN  /\ users[current_user].is_admin
            /\ users' = r.users
            /\ UNCHANGED <<codes, uses, orders, inflight>>

---------------------------------------------------------------------------
(* Concurrent POST /admin/api/users/{user_id}/toggle-admin requests *)

\* require_admin, resolved before the handler body runs: the caller's row
\* is read once and its is_admin is not looked at again
BeginToggleUserAdmin ==
    \E s \in Slots, current_user \in DOMAIN users,
       user_id \in 1..(MaxUsers + 1) :
        /\ inflight[s].op = "idle"
        /\ users[current_user].is_admin
        /\ inflight' = [inflight EXCEPT ![s] =
               [op |-> "toggle_user_admin", phase |-> "authorized",
                current_user |-> current_user, user_id |-> user_id,
                is_admin |-> FALSE]]
        /\ UNCHANGED <<users, codes, uses, orders>>

\* lines 304-319: the target row is selected; a missing target (404) or
\* the caller's own admin account (400) ends the request
LoadToggleUserAdmin ==
    \E s \in Slots :
        /\ inflight[s].op = "toggle_user_admin"
        /\ inflight[s].phase = "authorized"
        /\ LET req == inflight[s]
               r == toggle_user_admin(users, req.current_user, req.user_id,
                                      FALSE)
           IN  inflight' = [inflight EXCEPT ![s] =
                   IF r.status \in {404, 400} THEN Idle
                   ELSE [req EXCEPT !.phase = "loaded",
                                    !.is_admin = users[req.user_id].is_admin]]
        /\ UNCHANGED <<users, codes, uses, orders>>

\* lines 322-323: the flag is set to the negation of the value that was
\* read and the UPDATE is committed, or the commit fails and is rolled back
FinishToggleUserAdmin ==
    \E s \in Slots, commitFails \in BOOLEAN :
        /\ inflight[s].op = "toggle_user_admin"
        /\ inflight[s].phase = "loaded"
        /\ LET req == inflight[s]
           IN  users' = IF commitFails THEN users
                        ELSE [users EXCEPT ![req.user_id].is_admin =
                                               ~req.is_admin]
        /\ inflight' = [inflight EXCEPT ![s] = Idle]
        /\ UNCHANGED <<codes, uses, orders>>

---------------------------------------------------------------------------
(* Concurrent POST /api/create-order requests *)

Busy == {s \in Slots : inflight[s].op # "idle"}

\* The UPDATE a session flushes at commit: the discount flags that the
\* request changed on the rows it read (seen -> written) are written over
\* the rows as they are now, whatever they hold by then.
FlushFlags(now, seen, written) ==
    [i \in DOMAIN now |->
        IF i \notin DOMAIN seen THEN now[i]
        ELSE [now[i] EXCEPT
                 !.referee_discount_used =
                     IF written[i].referee_discount_used
                          # seen[i].referee_discount_used
                        THEN written[i].referee_discount_used ELSE @,
                 !.referrer_discount_used =
                     IF written[i].referrer_discount_used
                          # seen[i].referrer_discount_used
                        THEN written[i].referrer_discount_used ELSE @]]

\* create_order up to the queries of apply_referral_discount (lines 282-309
\* return): the request is valid and has read the referral rows
BeginCreateOrder ==
    \E s \in Slots, uid \in DOMAIN users, q \in OrderRequests,
       optin \in BOOLEAN :
        /\ inflight[s].op = "idle"
        /\ Len(orders) + Cardinality(Busy) < MaxOrders
        /\ BasePrice(q.product_type, q.material, q.teeth, q.detail_price)
             # None
        /\ inflight' = [inflight EXCEPT ![s] =
               [op |-> "create_order", uid |-> uid, q |-> q, optin |-> optin,
                seen |-> uses]]
        /\ UNCHANGED <<users, codes, uses, orders>>

\* create_order from the commit of line 313 on: the discount the request
\* found on the rows it read is applied, its flag is written, the order
\* is inserted and the checkout session is created.  No database or
\* gateway error occurs in this study.
FinishCreateOrder ==
    \E s \in Slots :
        /\ inflight[s].op = "create_order"
        /\ LET req == inflight[s]
               r == create_order(orders, req.seen, codes, req.uid,
                                 req.q.product_type, req.q.material,
                                 req.q.teeth, req.q.detail_price, req.optin,
                                 "none")
           IN  /\ orders' = r.orders
               /\ uses' = FlushFlags(uses, req.seen, r.uses)
        /\ inflight' = [inflight EXCEPT ![s] = Idle]
        /\ UNCHANGED <<users, codes>>

---------------------------------------------------------------------------
(* Concurrent POST /auth/register and GET /referrals requests *)

\* the codes generate_secure_referral_code and uuid4 can come up with while
\* requests are in flight
FreshTokens == 1..(MaxUsers + MaxInflight)

\* register whose user commit, on a duplicate email, carries on with the
\* account that already has it
register_commit_reuses_account(us, cs, rs, req, failAt) ==
    LET taken == UserByEmail(us, req.email)
        uid == IF taken # {} THEN CHOOSE u \in taken : TRUE ELSE Len(us) + 1
        us1 == IF taken # {} THEN us
               ELSE Append(us, NewUser(req.email, req.referral_code))
        cs1 == Append(cs, NewReferralCode(req.token, uid))
        rs1 == IF req.found # None
                  THEN Append(rs, NewReferralUse(req.found, uid))
                  ELSE rs
    IN  IF failAt = "user_commit"
           THEN [users |-> us, codes |-> cs, uses |-> rs, status |-> 500]
        ELSE IF failAt = "final_commit" \/ CodeByToken(cs, req.token) # {}
           THEN [users |-> us1, codes |-> cs, uses |-> rs, status |-> 500]
        ELSE [users |-> us1, codes |-> cs1, uses |-> rs1, status |-> 200]

\* register from the first commit (line 94) on, for a request req that has
\* passed the email check and the referral code lookup: the unique index
\* on users.email rejects the insert when the email has been registered
\* in the meantime
register_commit(us, cs, rs, req, failAt) ==
    LET uid == Len(us) + 1
        us1 == Append(us, NewUser(req.email, req.referral_code))
        cs1 == Append(cs, NewReferralCode(req.token, uid))
        rs1 == IF req.found # None
                  THEN Append(rs, NewReferralUse(req.found, uid))
                  ELSE rs
    IN  IF failAt = "user_commit" \/ UserByEmail(us, req.email) # {}
           THEN [users |-> us, codes |-> cs, uses |-> rs, status |-> 500]
        ELSE IF failAt = "final_commit" \/ CodeByToken(cs, req.token) # {}
           THEN [users |-> us1, codes |-> cs, uses |-> rs, status |-> 500]
        ELSE [users |-> us1, codes |-> cs1, uses |-> rs1, status |-> 200]

\* register up to line 86: the email is not registered and the referral
\* code, if one is given, exists
BeginRegister ==
    \E s \in Slots, email \in Emails, referral_code \in CodeTokens \cup {None},
       token \in FreshTokens :
        LET found == ScalarOneOrNone(CodeByToken(codes, referral_code))
        IN  /\ inflight[s].op = "idle"
            /\ Len(users) < MaxUsers
            /\ UserByEmail(users, email) = {}
            /\ referral_code # None => found.row # None
            /\ inflight' = [inflight EXCEPT ![s] =
                   [op |-> "register", email |-> email,
                    referral_code |-> referral_code, found |-> found.row,
                    token |-> token]]
            /\ UNCHANGED <<users, codes, uses, orders>>

FinishRegister ==
    \E s \in Slots, failAt \in RegisterFailPoints :
        /\ inflight[s].op = "register"
        /\ LET r == register_commit(users, codes, uses, inflight[s], failAt)
           IN  /\ users' = r.users
               /\ codes' = r.codes
               /\ uses' = r.uses
        /\ inflight' = [inflight EXCEPT ![s] = Idle]
        /\ UNCHANGED orders

\* referral_dashboard from the insert of line 301 on, for a request that
\* found no code of its user: the unique index on referral_codes.code
\* rejects a code that is taken, nothing rejects a second code of the user
referral_dashboard_commit(cs, req, commitFails) ==
    IF commitFails \/ CodeByToken(cs, req.token) # {}
       THEN [codes |-> cs, status |-> 500]
    ELSE [codes |-> Append(cs, NewReferralCode(req.token, req.uid)),
          status |-> 200]

\* referral_dashboard up to line 297, for a logged-in user without a code
BeginReferralDashboard ==
    \E s \in Slots, uid \in DOMAIN users, token \in FreshTokens :
        /\ inflight[s].op = "idle"
        /\ CodeByUser(codes, uid) = {}
        /\ inflight' = [inflight EXCEPT ![s] =
               [op |-> "referral_dashboard", uid |-> uid, token |-> token]]
        /\ UNCHANGED <<users, codes, uses, orders>>

FinishReferralDashboard ==
    \E s \in Slots, commitFails \in BOOLEAN :
        /\ inflight[s].op = "referral_dashboard"
        /\ codes' = referral_dashboard_commit(codes, inflight[s],
                                              commitFails).codes
        /\ inflight' = [inflight EXCEPT ![s] = Idle]
        /\ UNCHANGED <<users, uses, orders>>

---------------------------------------------------------------------------

(* Specifications *)

Next ==
    \/ Register
    \/ CreateOrder
    \/ StripeWebhook
    \/ AdminUpdateOrderStatus

Spec == Init /\ [][Next]_vars

\* The customers and the payment gateway alone, no admin override
NextAuto ==
    \/ Register
    \/ CreateOrder
    \/ StripeWebhook

SpecAuto == Init /\ [][NextAuto]_vars

\* The back office: accounts, their orders and the two admin routes
NextBackOffice ==
    \/ Register
    \/ CreateOrder
    \/ ToggleUserAdmin
    \/ AdminUpdateOrderStatus

SpecBackOffice == Init /\ [][NextBackOffice]_vars

\* The shop after a chain of two successful registrations: user 2 signed
\* up with the code of user 1, user 3 with the code of user 2.
ChainSecond ==
    register(<<[email |-> 1, referred_by |-> None, is_admin |-> TRUE]>>,
                   <<NewReferralCode(1, 1)>>, <<>>, 2, 1, 2, "none")

ChainThird ==
    register(ChainSecond.users, ChainSecond.codes, ChainSecond.uses,
                   3, 2, 3, "none")

\* User 2 has signed up with the code of user 1.  In the checkout study
\* the two place orders and the gateway reports on them.
InitReferred ==
    /\ users = ChainSecond.users
    /\ codes = ChainSecond.codes
    /\ uses = ChainSecond.uses
    /\ orders = <<>>
    /\ inflight = NoRequests

NextPricing ==
    \/ CreateOrderCheckout
    \/ StripeWebhook

SpecPricing == InitReferred /\ [][NextPricing]_vars

\* The pricing study: the two place orders from the full request set and
\* never pay
NextOrdering == CreateOrderPriced

SpecOrdering == InitReferred /\ [][NextOrdering]_vars

\* Concurrent registrations and referral-dashboard visits
NextConcurrentAccounts ==
    \/ BeginRegister
    \/ FinishRegister
    \/ BeginReferralDashboard
    \/ FinishReferralDashboard

SpecConcurrentAccounts == Init /\ [][NextConcurrentAccounts]_vars

\* Concurrent orders of user 1 and of user 2, whom user 1 referred
NextConcurrentOrders ==
    \/ BeginCreateOrder
    \/ FinishCreateOrder

SpecConcurrentOrders == InitReferred /\ [][NextConcurrentOrders]_vars

InitReferralChain ==
    /\ users = ChainThird.users
    /\ codes = ChainThird.codes
    /\ uses = ChainThird.uses
    /\ orders = <<>>
    /\ inflight = NoRequests

\* The shop after users 2 and 3 both signed up with the code of user 1
FanThird ==
    register(ChainSecond.users, ChainSecond.codes, ChainSecond.uses,
                   3, 1, 3, "none")

InitReferralFan ==
    /\ users = FanThird.users
    /\ codes = FanThird.codes
    /\ uses = FanThird.uses
    /\ orders = <<>>
    /\ inflight = NoRequests

NextCheckout ==
    \/ CreateOrder
    \/ StripeWebhook

SpecReferralChain == InitReferralChain /\ [][NextCheckout]_vars

SpecReferralFan == InitReferralFan /\ [][NextCheckout]_vars

---------------------------------------------------------------------------
(* Shorthands of the properties *)

Completed == "checkout.session.completed"

Owner(o) == orders[o].user_id

\* the ReferralUse rows in which user uid is the referred party
UsesOfReferee(uid) == {i \in DOMAIN uses : uses[i].referred_user_id = uid}

\* the ReferralUse rows under the referral code(s) user uid owns
UsesOfReferrer(uid) ==
    {i \in DOMAIN uses : uses[i].referral_code_id \in CodeByUser(codes, uid)}

Accepted(q) ==
    BasePrice(q.product_type, q.material, q.teeth, q.detail_price) # None

CreateOrderOf(uid, q, optin, fault) ==
    create_order(orders, uses, codes, uid, q.product_type, q.material,
                 q.teeth, q.detail_price, optin, fault)

---------------------------------------------------------------------------
(* C1 - Ordering safety: once an order is 'paid', no later step of the     *)
(* automated flow (in particular a checkout.session.expired event for its  *)
(* session) changes its payment_status.  Under SpecAuto the only writers   *)
(* of payment_status are the two webhook handlers.                         *)
C1_PaidNeverDowngraded ==
    [][\A o \in DOMAIN orders :
          orders[o].payment_status = "paid"
              => orders'[o].payment_status = "paid"]_vars

---------------------------------------------------------------------------
(* C2 - Idempotence of payment completion: in every reachable state, for   *)
(* every session, a processed checkout.session.completed delivery followed *)
(* by a second delivery of the same event (whatever goes wrong in the      *)
(* second) leaves the state of the first: the first delivery writes 'paid' *)
(* exactly when it finds a non-paid order, the second writes nothing and   *)
(* activates no referral.                                                  *)
C2_CompletedIdempotent ==
    \A sid \in Sessions, again \in WebhookFaults :
        LET first == handle_successful_payment(orders, users, codes, uses,
                                               sid, "none")
            second == handle_successful_payment(first.orders, users, codes,
                                                first.uses, sid, again)
            hit == {o \in OrderBySession(orders, sid) :
                       orders[o].payment_status # "paid"}
        IN  /\ first.paidWrite <=> hit # {}
            /\ \A o \in hit : first.orders[o].payment_status = "paid"
            /\ ~second.paidWrite
            /\ ~second.activated
            /\ second.orders = first.orders
            /\ second.uses = first.uses

\* a completed event has moved an order to paid and activated the referral
\* of its owner
C2_Witness ==
    \E o \in DOMAIN orders, i \in DOMAIN uses :
        /\ orders[o].payment_status = "paid"
        /\ orders[o].stripe_payment_intent # None
        /\ uses[i].is_active
        /\ uses[i].first_order_id = o

---------------------------------------------------------------------------
(* C3 - Referral activation is permanent: no step removes a ReferralUse,   *)
(* sets is_active back to false, or changes a first_order_id that is set.  *)
C3_ActivationPermanent ==
    [][\A i \in DOMAIN uses :
          /\ i \in DOMAIN uses'
          /\ uses[i].is_active => uses'[i].is_active
          /\ uses[i].first_order_id # None
                 => uses'[i].first_order_id = uses[i].first_order_id]_vars

\* an active ReferralUse whose referred user has a second paid order: a
\* later payment has gone through activate_referral_bonus again
C3_Witness ==
    \E i \in DOMAIN uses, o \in DOMAIN orders :
        /\ uses[i].is_active
        /\ uses[i].first_order_id # None
        /\ o # uses[i].first_order_id
        /\ Owner(o) = uses[i].referred_user_id
        /\ orders[o].stripe_payment_intent # None
        /\ orders[o].payment_status = "paid"

---------------------------------------------------------------------------
(* C4 - Discount precedence: a user who has both an unused referee        *)
(* discount and an active unused referrer discount and opts in gets the   *)
(* referee discount: the order created records 'referee' and 90% of the   *)
(* base price, no referrer_discount_used flag changes, and the only        *)
(* ReferralUse field that changes is the user's referee_discount_used,     *)
(* which is set when the commit of the flag goes through.                  *)
HasRefereeDiscount(uid) ==
    \E i \in UsesOfReferee(uid) : ~uses[i].referee_discount_used

HasActiveReferrerDiscount(uid) ==
    \E i \in UsesOfReferrer(uid) :
        uses[i].is_active /\ ~uses[i].referrer_discount_used

C4_RefereeTakesPrecedence ==
    \A uid \in DOMAIN users, q \in OrderRequests, fault \in CreateFaults :
        (HasRefereeDiscount(uid) /\ HasActiveReferrerDiscount(uid)
         /\ Accepted(q))
        => LET r == CreateOrderOf(uid, q, TRUE, fault)
               base == BasePrice(q.product_type, q.material, q.teeth,
                                 q.detail_price)
           IN  /\ DOMAIN r.uses = DOMAIN uses
               /\ \A i \in DOMAIN uses :
                     IF i \in UsesOfReferee(uid)
                        THEN /\ r.uses[i] =
                                  [uses[i] EXCEPT !.referee_discount_used =
                                      r.uses[i].referee_discount_used]
                             /\ fault # "discount_commit"
                                  => r.uses[i].referee_discount_used
                        ELSE r.uses[i] = uses[i]
               /\ fault # "order_insert"
                     => /\ Len(r.orders) = Len(orders) + 1
                        /\ r.orders[Len(r.orders)].user_id = uid
                        /\ r.orders[Len(r.orders)].discount_applied
                               = "referee"
                        /\ r.orders[Len(r.orders)].total_price = base * 90

\* a user holding both discounts whose opted-in order comes out as a
\* referee order
C4_Witness ==
    \E uid \in DOMAIN users, q \in OrderRequests :
        /\ HasRefereeDiscount(uid)
        /\ HasActiveReferrerDiscount(uid)
        /\ Accepted(q)
        /\ Len(orders) < MaxOrders
        /\ LET r == CreateOrderOf(uid, q, TRUE, "none")
           IN  r.orders[Len(r.orders)].discount_applied = "referee"

---------------------------------------------------------------------------
(* C5 - The referrer discount comes only from an active ReferralUse: no    *)
(* step flips referrer_discount_used of a ReferralUse whose is_active is   *)
(* false.                                                                  *)
C5_InactiveUseNeverConsumed ==
    [][\A i \in DOMAIN uses :
          ~uses[i].is_active
              => uses'[i].referrer_discount_used
                     = uses[i].referrer_discount_used]_vars

---------------------------------------------------------------------------
(* C6 - Order creation with a discount is all-or-nothing: every consumed   *)
(* discount flag has a persisted order of the user it belongs to that      *)
(* records that discount.                                                  *)
C6_ConsumedFlagHasOrder ==
    \A i \in DOMAIN uses :
        /\ uses[i].referee_discount_used
               => \E o \in DOMAIN orders :
                      /\ Owner(o) = uses[i].referred_user_id
                      /\ orders[o].discount_applied = "referee"
        /\ uses[i].referrer_discount_used
               => \E o \in DOMAIN orders :
                      /\ Owner(o) = codes[uses[i].referral_code_id].user_id
                      /\ orders[o].discount_applied = "referrer"

---------------------------------------------------------------------------
(* C7 - Every persisted order that records a discount is paid for by a     *)
(* used flag: a 'referee' order by the referred user's                     *)
(* referee_discount_used, a 'referrer' order by a referrer_discount_used   *)
(* under the owner's code.                                                 *)
C7_DiscountedOrderHasFlag ==
    \A o \in DOMAIN orders :
        /\ orders[o].discount_applied = "referee"
               => \E i \in UsesOfReferee(Owner(o)) :
                      uses[i].referee_discount_used
        /\ orders[o].discount_applied = "referrer"
               => \E i \in UsesOfReferrer(Owner(o)) :
                      uses[i].referrer_discount_used

---------------------------------------------------------------------------
(* C8 - Payment-completed reconciliation is atomic: for a non-paid order   *)
(* of a referred user whose ReferralUse is inactive, a completed event     *)
(* (whatever goes wrong in it) commits the order as 'paid' together with   *)
(* the activation (is_active, first_order_id = the order), or changes      *)
(* nothing.                                                                *)
C8_CompletedAtomic ==
    \A sid \in Sessions, fault \in WebhookFaults :
        \A o \in OrderBySession(orders, sid), i \in DOMAIN uses :
            (/\ orders[o].payment_status # "paid"
             /\ uses[i].referred_user_id = Owner(o)
             /\ ~uses[i].is_active)
            => LET r == stripe_webhook(orders, users, codes, uses,
                                       Completed, sid, fault)
               IN  \/ /\ r.orders = [orders EXCEPT
                                        ![o].payment_status = "paid"]
                      /\ r.uses = [uses EXCEPT ![i].is_active = TRUE,
                                               ![i].first_order_id = o]
                   \/ /\ r.orders = orders
                      /\ r.uses = uses

\* a referred user's unpaid order with a checkout session and an inactive
\* ReferralUse, on which the completed event commits both changes
C8_Witness ==
    \E o \in DOMAIN orders, i \in DOMAIN uses :
        /\ orders[o].payment_status = "pending"
        /\ orders[o].stripe_payment_intent # None
        /\ uses[i].referred_user_id = Owner(o)
        /\ ~uses[i].is_active
        /\ LET r == stripe_webhook(orders, users, codes, uses, Completed,
                                   orders[o].stripe_payment_intent, "none")
           IN  /\ r.orders[o].payment_status = "paid"
               /\ r.uses[i].is_active

---------------------------------------------------------------------------
(* C9 - No order is left pending without a checkout session: every         *)
(* persisted order in 'pending' status has a stored checkout-session id.   *)
C9_PendingHasSession ==
    \A o \in DOMAIN orders :
        orders[o].payment_status = "pending"
            => orders[o].stripe_payment_intent # None

---------------------------------------------------------------------------
(* C10 - Registration is atomic: every User row has a ReferralCode of its  *)
(* own, and every User row with a referred_by code has its ReferralUse.    *)
C10_RegistrationAtomic ==
    \A u \in DOMAIN users :
        /\ CodeByUser(codes, u) # {}
        /\ users[u].referred_by # None => UsesOfReferee(u) # {}

---------------------------------------------------------------------------
(* C11 - Registration with a referral code that matches no ReferralCode is *)
(* rejected with status 400 and creates no User, ReferralCode or           *)
(* ReferralUse row, whatever the email, the generated code and the faults. *)
UnknownCodes == {c \in CodeTokens : CodeByToken(codes, c) = {}}

C11_UnknownCodeRejected ==
    \A email \in Emails, referral_code \in UnknownCodes,
       token \in CodeTokens, failAt \in RegisterFailPoints :
        LET r == register(users, codes, uses, email, referral_code, token,
                          failAt)
        IN  /\ r.status = 400
            /\ r.users = users
            /\ r.codes = codes
            /\ r.uses = uses

\* a new email can still register, a referral code is unknown, and
\* registering with it answers 400
C11_Witness ==
    \E email \in Emails, referral_code \in UnknownCodes :
        /\ Len(users) < MaxUsers
        /\ UserByEmail(users, email) = {}
        /\ register(users, codes, uses, email, referral_code, Len(users) + 1,
                    "none").status = 400

---------------------------------------------------------------------------
(* C12 - An admin's toggle-admin request on their own account, while their *)
(* admin flag is true, is rejected with status 400 and leaves the flag of  *)
(* every user unchanged, whether or not the commit would have failed.      *)
Admins == {u \in DOMAIN users : users[u].is_admin}

C12_SelfToggleRejected ==
    \A current_user \in Admins, commitFails \in BOOLEAN :
        LET r == toggle_user_admin(users, current_user, current_user,
                                   commitFails)
        IN  /\ r.status = 400
            /\ \A u \in DOMAIN users :
                   r.users[u].is_admin = users[u].is_admin
            /\ r.users = users

\* an account that was granted the admin flag through the route, is now
\* the only admin, and cannot toggle itself
C12_Witness ==
    /\ Len(users) = 2
    /\ Admins = {2}
    /\ toggle_user_admin(users, 2, 2, FALSE).status = 400

---------------------------------------------------------------------------
(* C13 - A verified completed or expired event whose checkout-session id   *)
(* matches no order is acknowledged with status 200 and leaves every Order *)
(* and every ReferralUse unchanged.                                        *)
UnknownSessions == {sid \in Sessions : OrderBySession(orders, sid) = {}}

Verified == WebhookFaults \ Unverified

C13_UnknownSessionAcknowledged ==
    \A type \in {"checkout.session.completed", "checkout.session.expired"},
       sid \in UnknownSessions, fault \in Verified :
        LET r == stripe_webhook(orders, users, codes, uses, type, sid, fault)
        IN  /\ r.status = 200
            /\ r.orders = orders
            /\ r.uses = uses

\* a pending order with a session exists, so an event for its session
\* would change it, and an event for a session no order carries does not
C13_Witness ==
    \E o \in DOMAIN orders, sid \in UnknownSessions :
        /\ orders[o].payment_status = "pending"
        /\ orders[o].stripe_payment_intent # None
        /\ stripe_webhook(orders, users, codes, uses, Completed,
                          orders[o].stripe_payment_intent, "none").orders
             # orders
        /\ stripe_webhook(orders, users, codes, uses, Completed, sid,
                          "none").orders = orders

---------------------------------------------------------------------------
(* C18 - Once the signature of a webhook payload has been verified, the    *)
(* endpoint answers 200 for every event type and every session id,         *)
(* whether or not the order lookup, the status update, the referral        *)
(* activation or the commit raised an error.                               *)
C18_VerifiedAlwaysAcknowledged ==
    \A type \in EventTypes, sid \in Sessions, fault \in Verified :
        stripe_webhook(orders, users, codes, uses, type, sid, fault).status
          = 200

\* a pending order of a referred user whose completed event fails in the
\* referral activation: nothing is written and the answer is still 200
C18_Witness ==
    \E o \in DOMAIN orders :
        LET sid == orders[o].stripe_payment_intent
            ok == stripe_webhook(orders, users, codes, uses, Completed, sid,
                                 "none")
            ko == stripe_webhook(orders, users, codes, uses, Completed, sid,
                                 "activate")
        IN  /\ sid # None
            /\ orders[o].payment_status = "pending"
            /\ ok.uses # uses
            /\ ko.orders = orders
            /\ ko.uses = uses
            /\ ko.status = 200

---------------------------------------------------------------------------
(* C19 - A webhook request whose payload is invalid or whose signature     *)
(* fails verification is answered with status 400 and changes no Order and *)
(* no ReferralUse, whatever event type and session id it names.            *)
C19_UnverifiedRejected ==
    \A type \in EventTypes, sid \in Sessions, fault \in Unverified :
        LET r == stripe_webhook(orders, users, codes, uses, type, sid, fault)
        IN  /\ r.status = 400
            /\ r.orders = orders
            /\ r.uses = uses

\* a forged completed event names the session of a pending order that the
\* genuine event would mark paid
C19_Witness ==
    \E o \in DOMAIN orders :
        LET sid == orders[o].stripe_payment_intent
        IN  /\ sid # None
            /\ orders[o].payment_status = "pending"
            /\ stripe_webhook(orders, users, codes, uses, Completed, sid,
                              "none").orders[o].payment_status = "paid"
            /\ stripe_webhook(orders, users, codes, uses, Completed, sid,
                              "signature").status = 400

---------------------------------------------------------------------------
(* C20 - In the webhook flow the only status transitions are pending to    *)
(* paid and pending to failed: no step of the customers and the gateway    *)
(* changes the payment_status of an order that is 'shipped' or 'failed'.   *)
(* Under SpecAuto the only writers of payment_status are the two webhook   *)
(* handlers.                                                               *)
C20_FailedAndShippedAreTerminal ==
    [][\A o \in DOMAIN orders :
           orders[o].payment_status \in {"shipped", "failed"}
             => orders'[o].payment_status = orders[o].payment_status]_vars

---------------------------------------------------------------------------
(* C14 - Grillz pricing: for every material of the price table with unit   *)
(* price p and every selection of n >= 1 teeth the request is accepted and *)
(* the undiscounted price of the order is p * n; a selection of 0 teeth    *)
(* and a material outside the table are rejected with status 400 and no    *)
(* order (and no ledger change); so every persisted grillz order has a     *)
(* listed material, at least one tooth, and p * n as its undiscounted      *)
(* price.                                                                  *)
LastOrder(os) == os[Len(os)]

C14_GrillzPricing ==
    /\ \A uid \in DOMAIN users, m \in Materials, n \in 0..MaxTeeth,
          fault \in CreateFaults :
           LET r == create_order(orders, uses, codes, uid, "grillz", m, n,
                                 0, FALSE, fault)
               d == create_order(orders, uses, codes, uid, "grillz", m, n,
                                 0, TRUE, fault)
           IN  IF m \in DOMAIN GRILLZ_PRICES /\ n >= 1
                  THEN /\ fault = "none" => r.status = 200
                       /\ r.status = 200 => Len(r.orders) = Len(orders) + 1
                       /\ Len(r.orders) > Len(orders)
                            => LastOrder(r.orders).total_price
                                 = GRILLZ_PRICES[m] * n * 100
                  ELSE /\ r.status = 400 /\ d.status = 400
                       /\ r.orders = orders /\ d.orders = orders
                       /\ r.uses = uses /\ d.uses = uses
    /\ \A o \in DOMAIN orders :
           orders[o].product_type = "grillz"
             => /\ orders[o].material \in DOMAIN GRILLZ_PRICES
                /\ orders[o].teeth >= 1
                /\ orders[o].discount_applied = "none"
                     => orders[o].total_price
                          = GRILLZ_PRICES[orders[o].material]
                              * orders[o].teeth * 100

\* an undiscounted order for MaxTeeth diamond teeth is on file at MaxTeeth
\* times the unit price, and a request for no teeth is turned down
C14_Witness ==
    \E o \in DOMAIN orders :
        /\ orders[o].product_type = "grillz"
        /\ orders[o].material = "diamond"
        /\ orders[o].teeth = MaxTeeth
        /\ orders[o].discount_applied = "none"
        /\ orders[o].total_price = GRILLZ_PRICES.diamond * MaxTeeth * 100
        /\ create_order(orders, uses, codes, orders[o].user_id, "grillz",
                        "diamond", 0, 0, FALSE, "none").status = 400

---------------------------------------------------------------------------
(* C15 - For the product types watch and bracelet create_order accepts     *)
(* only a caller-supplied price that is strictly positive: a missing, zero *)
(* or negative price is rejected with status 400 and no order, so every    *)
(* persisted watch or bracelet order has total_price > 0.                  *)
CallerPriced == {"watch", "bracelet"}

C15_CallerPricePositive ==
    /\ \A uid \in DOMAIN users, t \in CallerPriced, p \in DetailPrices,
          optin \in BOOLEAN, fault \in CreateFaults :
           LET r == create_order(orders, uses, codes, uid, t, "steel", 0, p,
                                 optin, fault)
           IN  IF p > 0
                  THEN /\ fault = "none" => r.status = 200
                       /\ r.status = 200 => Len(r.orders) = Len(orders) + 1
                       /\ Len(r.orders) > Len(orders)
                            => LastOrder(r.orders).total_price > 0
                  ELSE /\ r.status = 400
                       /\ r.orders = orders
                       /\ r.uses = uses
    /\ \A o \in DOMAIN orders :
           orders[o].product_type \in CallerPriced
             => /\ orders[o].detail_price > 0
                /\ orders[o].total_price > 0

\* a bracelet order is on file with a positive price, and the same caller
\* is turned down with a zero and with a negative price
C15_Witness ==
    \E o \in DOMAIN orders :
        /\ orders[o].product_type = "bracelet"
        /\ orders[o].total_price > 0
        /\ \A p \in DetailPrices :
               p <= 0 => create_order(orders, uses, codes, orders[o].user_id,
                                      "bracelet", "steel", 0, p, FALSE,
                                      "none").status = 400

---------------------------------------------------------------------------
(* C16 - The discount is applied multiplicatively exactly once: the        *)
(* total_price of every order is its base price times (1 - rate), with the *)
(* rate 0, 10% or 20% of its recorded discount kind none, referee or       *)
(* referrer, and the amount the checkout session is created with is that   *)
(* price in cents.  Gold at 29900 a tooth with 4 teeth gives 119600, and   *)
(* with the referee discount 107640, which is the amount sent to the       *)
(* gateway.  Prices are in cents: base (dollars) * (100 - rate).           *)
BaseOf(o) == BasePrice(o.product_type, o.material, o.teeth, o.detail_price)

C16_DiscountAppliedOnce ==
    /\ \A base \in Bases, kind \in DiscountKinds :
           unit_amount[base, kind] = base * (100 - Rate[kind])
    /\ \A o \in DOMAIN orders :
           LET base == BaseOf(orders[o])
               kind == orders[o].discount_applied
           IN  /\ kind \in DiscountKinds
               /\ orders[o].total_price = base * (100 - Rate[kind])
               /\ unit_amount[base, kind] = orders[o].total_price
    /\ \A uid \in DOMAIN users, q \in PricingRequests :
           LET r == CreateOrderOf(uid, q, TRUE, "none")
               kind == LastOrder(r.orders).discount_applied
           IN  Accepted(q)
                 => /\ Len(r.orders) = Len(orders) + 1
                    /\ kind \in DiscountKinds
                    /\ LastOrder(r.orders).total_price
                         = BaseOf(LastOrder(r.orders)) * (100 - Rate[kind])
    /\ \A uid \in DOMAIN users, fault \in CreateFaults :
           LET plain == create_order(orders, uses, codes, uid, "grillz",
                                     "gold", 4, 0, FALSE, fault)
               off == create_order(orders, uses, codes, uid, "grillz",
                                   "gold", 4, 0, TRUE, fault)
           IN  /\ Len(plain.orders) > Len(orders)
                    => LastOrder(plain.orders).total_price = 119600
               /\ (HasRefereeDiscount(uid) /\ Len(off.orders) > Len(orders))
                    => /\ LastOrder(off.orders).discount_applied = "referee"
                       /\ LastOrder(off.orders).total_price = 107640
                       /\ unit_amount[GRILLZ_PRICES.gold * 4, "referee"]
                            = 107640

\* the order of 4 gold teeth with the referee discount is on file at
\* 107640, and the referrer has since ordered with the referrer discount
C16_Witness ==
    \E o, p \in DOMAIN orders :
        /\ orders[o].material = "gold"
        /\ orders[o].teeth = 4
        /\ orders[o].discount_applied = "referee"
        /\ orders[o].total_price = 107640
        /\ orders[o].stripe_payment_intent # None
        /\ orders[p].discount_applied = "referrer"
        /\ orders[p].total_price = BaseOf(orders[p]) * 80

---------------------------------------------------------------------------
(* C17 - create_order consults the referral ledger only when the caller    *)
(* opted in: with use_referral_discount false the order's total_price is   *)
(* the base price, its recorded discount kind is none, and no ReferralUse  *)
(* changes, whatever discounts the caller holds and whatever fails.        *)
C17_OptOutLeavesLedger ==
    \A uid \in DOMAIN users, q \in OrderRequests, fault \in CreateFaults :
        LET r == CreateOrderOf(uid, q, FALSE, fault)
        IN  /\ r.uses = uses
            /\ Len(r.orders) > Len(orders)
                 => /\ LastOrder(r.orders).discount_applied = "none"
                    /\ LastOrder(r.orders).total_price
                         = BaseOf(LastOrder(r.orders)) * 100

\* a user placed an undiscounted order while holding an unused referee
\* discount, which opting in would have taken
C17_Witness ==
    \E o \in DOMAIN orders, q \in OrderRequests :
        /\ orders[o].discount_applied = "none"
        /\ orders[o].total_price = BaseOf(orders[o]) * 100
        /\ HasRefereeDiscount(orders[o].user_id)
        /\ Accepted(q)
        /\ CreateOrderOf(orders[o].user_id, q, TRUE, "none").uses # uses
        /\ CreateOrderOf(orders[o].user_id, q, FALSE, "none").uses = uses

---------------------------------------------------------------------------
(* C21 - The referral link never answers with an error: a malformed code   *)
(* or a code that does not exist is redirected (303) to plain              *)
(* registration, and only an existing well-formed code is redirected to    *)
(* registration with the code pre-filled.                                  *)
C21_ReferralLinkNeverErrors ==
    \A referral_code \in LinkCodes :
        LET r == referral_redirect(codes, referral_code, FALSE)
            exists == /\ referral_code.form = "wellformed"
                      /\ CodeByToken(codes, referral_code.token) # {}
        IN  /\ r.status = 303
            /\ r.ref = IF exists THEN referral_code.token ELSE None

---------------------------------------------------------------------------
(* C22 - is_active becomes true only on the referred user's first order to *)
(* reach a paid state: in the step that activates a ReferralUse, its       *)
(* first_order_id names an order of the referred user that the step marks  *)
(* paid, and no other order of that user is already paid, whether a        *)
(* webhook or the admin override paid it.                                  *)
C22_ActivatedByFirstPaidOrder ==
    [][\A i \in DOMAIN uses :
           (~uses[i].is_active /\ uses'[i].is_active)
             => LET first == uses'[i].first_order_id
                    uid == uses[i].referred_user_id
                IN  /\ first \in DOMAIN orders
                    /\ orders[first].user_id = uid
                    /\ orders'[first].payment_status = "paid"
                    /\ \A o \in DOMAIN orders :
                           (o # first /\ orders[o].user_id = uid)
                             => orders[o].payment_status # "paid"]_vars

---------------------------------------------------------------------------
(* C23 - The discount flags are one-shot under concurrency: whatever the   *)
(* interleaving of concurrent create-order requests, for every ReferralUse *)
(* at most one persisted order records the referee discount of its         *)
(* referred user, and at most one order records the referrer discount of   *)
(* the owner of its code.                                                  *)
OrdersWith(uid, kind) ==
    {o \in DOMAIN orders : /\ orders[o].user_id = uid
                           /\ orders[o].discount_applied = kind}

C23_DiscountFlagsOneShot ==
    \A i \in DOMAIN uses :
        /\ Cardinality(OrdersWith(uses[i].referred_user_id, "referee")) <= 1
        /\ Cardinality(OrdersWith(codes[uses[i].referral_code_id].user_id,
                                  "referrer")) <= 1

---------------------------------------------------------------------------
(* C24 - A user with no unused referee discount who owns a referral code   *)
(* with one or more active unused ReferralUse rows (two or more at once    *)
(* included) and opts in receives the 20% referrer discount, and exactly   *)
(* one of those rows has referrer_discount_used flipped to true.           *)
ActiveUnused(uid) ==
    {i \in UsesOfReferrer(uid) :
        uses[i].is_active /\ ~uses[i].referrer_discount_used}

C24_ReferrerDiscountGranted ==
    \A uid \in DOMAIN users, q \in OrderRequests :
        (~HasRefereeDiscount(uid) /\ ActiveUnused(uid) # {} /\ Accepted(q))
        => LET r == CreateOrderOf(uid, q, TRUE, "none")
               flipped == {i \in ActiveUnused(uid) :
                              r.uses[i].referrer_discount_used}
           IN  /\ Len(r.orders) = Len(orders) + 1
               /\ LastOrder(r.orders).discount_applied = "referrer"
               /\ LastOrder(r.orders).total_price
                    = BaseOf(LastOrder(r.orders)) * 80
               /\ Cardinality(flipped) = 1

---------------------------------------------------------------------------
(* C25 - Each user owns at most one ReferralCode and no two ReferralCode   *)
(* rows carry the same code, in every state reachable by interleaving      *)
(* registrations and referral-dashboard requests, which create a code      *)
(* when they find none.                                                    *)
C25_OneCodePerUser ==
    /\ \A uid \in DOMAIN users : Cardinality(CodeByUser(codes, uid)) <= 1
    /\ \A i, j \in DOMAIN codes : codes[i].code = codes[j].code => i = j

---------------------------------------------------------------------------
(* C26 - There is at most one ReferralUse per referred user, and so at     *)
(* most one per (referral code, referred user) pair, after any sequence of *)
(* registrations, repeated or concurrent ones with the same email          *)
(* included; every ReferralUse belongs to a registered user who signed up  *)
(* with a code.                                                            *)
C26_OneUsePerReferredUser ==
    /\ \A i, j \in DOMAIN uses :
           uses[i].referred_user_id = uses[j].referred_user_id => i = j
    /\ \A i \in DOMAIN uses :
           /\ uses[i].referred_user_id \in DOMAIN users
           /\ users[uses[i].referred_user_id].referred_by # None
           /\ uses[i].referral_code_id \in DOMAIN codes

\* a registration with a referral code is still in flight for an email
\* that a concurrent registration has meanwhile registered, with its
\* ReferralUse on file
C26_Witness ==
    \E s \in Slots, i \in DOMAIN uses :
        /\ inflight[s].op = "register"
        /\ inflight[s].found # None
        /\ UserByEmail(users, inflight[s].email)
             = {uses[i].referred_user_id}

---------------------------------------------------------------------------
(* C27 - After an order is created, no step removes it or changes its      *)
(* total_price, user_id, product type, material, teeth selection, product  *)
(* details or recorded discount kind; its checkout-session id stays as     *)
(* create_order left it; and its payment_status changes only in a step of  *)
(* payment reconciliation or of the admin override, which creates no row.  *)
Created(o) ==
    [user_id |-> o.user_id, product_type |-> o.product_type,
     material |-> o.material, teeth |-> o.teeth,
     detail_price |-> o.detail_price,
     discount_applied |-> o.discount_applied,
     total_price |-> o.total_price,
     stripe_payment_intent |-> o.stripe_payment_intent]

C27_OrderFrame ==
    [][\A o \in DOMAIN orders :
           /\ o \in DOMAIN orders'
           /\ Created(orders'[o]) = Created(orders[o])
           /\ orders'[o].payment_status # orders[o].payment_status
                => /\ Len(orders') = Len(orders)
                   /\ UNCHANGED <<users, codes>>]_vars

\* a discounted order that a webhook and then the admin have moved on to
\* shipped still shows the price and the kind it was created with
C27_Witness ==
    \E o \in DOMAIN orders :
        /\ orders[o].payment_status = "shipped"
        /\ orders[o].discount_applied = "referee"
        /\ orders[o].total_price = BaseOf(orders[o]) * 90
        /\ \E i \in UsesOfReferee(orders[o].user_id) :
               uses[i].first_order_id = o

---------------------------------------------------------------------------
(* C28 - In every reachable state the payment_status of each order is one  *)
(* of pending, paid, shipped, failed, so the per-status counts of the      *)
(* admin statistics add up to total_orders; no operation, the admin        *)
(* override included, puts an order in another status.                     *)
C28_StatusesPartitionOrders ==
    /\ \A o \in DOMAIN orders :
           orders[o].payment_status \in {"pending", "paid", "shipped",
                                         "failed"}
    /\ LET stats == get_admin_stats(orders)
       IN  stats.pending_orders + stats.completed_orders
             + stats.shipped_orders + stats.failed_orders
               = stats.total_orders

---------------------------------------------------------------------------
(* C29 - The discount preview and the discount applied agree: in every     *)
(* state and for every user, check-discount answers with the kind and the  *)
(* rate that create_order with the discount opted in applies for that user *)
(* in that state.                                                          *)
C29_PreviewMatchesApplied ==
    \A uid \in DOMAIN users, q \in OrderRequests :
        Accepted(q)
        => LET preview == check_available_discount(uses, codes, uid)
               r == CreateOrderOf(uid, q, TRUE, "none")
               applied == LastOrder(r.orders)
           IN  /\ preview.status = 200
               /\ preview.type = applied.discount_applied
               /\ preview.discount = Rate[applied.discount_applied]
               /\ applied.total_price
                    = BaseOf(applied) * (100 - preview.discount)

---------------------------------------------------------------------------
(* Concurrent admin toggles: user 1 is an admin, user 2 is not, and toggle *)
(* requests interleave at their awaits.                                    *)
NextConcurrentAdmins ==
    \/ BeginToggleUserAdmin
    \/ LoadToggleUserAdmin
    \/ FinishToggleUserAdmin

SpecConcurrentAdmins == InitReferred /\ [][NextConcurrentAdmins]_vars

(* C30 - Admin lockout cannot happen: starting with an admin, every state  *)
(* reached through toggle-admin requests, two admins revoking each other   *)
(* concurrently after both passed the admin check included, has at least   *)
(* one user with the admin flag.                                           *)
C30_NoAdminLockout == Admins # {}

=============================================================================
